---- MODULE Spec2Model ----
(***************************************************************************)
(* A model of accurev2git.py: the replay of AccuRev transactions into git  *)
(* commits.  Strings that the script takes apart are modelled by what the  *)
(* script does to them:                                                    *)
(*   - an element path is the sequence of its '/'-separated components,    *)
(*     "/./dir/a.txt" being <<"", ".", "dir", "a.txt">>;                   *)
(*   - a text searched with the transaction-tag regular expression is a    *)
(*     sequence of tokens: 0 is text the expression does not match, n > 0  *)
(*     is an occurrence of "AccuRev Transaction #n".                       *)
(***************************************************************************)
EXTENDS Integers, Sequences, FiniteSets, TLC

\* ------------------------------------------------------------- bounds
\* Highest transaction id of the depot (ids are 1..MaxTx).
MaxTx == 3
\* Largest value of maxTransactions (the script's 500, scaled down).
MaxWindow == 2
\* Largest number of versions in one transaction.
MaxVersions == 2
\* The module global maxCmdItems (the script's 25, scaled down): the most
\* items one command line takes.
maxCmdItems == 2
\* Longest add list and remove list handed to GitCommit called on its own.
MaxList == 3
\* Largest batch size GitCommit is called on its own with.
MaxBatch == 3
\* Largest number of entries of the user map.
MaxMaps == 2
\* Longest list of parents kept of what the loop of GetParentPaths appends.
MaxParents == 4

\* ------------------------------------------------------------- values
None == "None"
\* GetLastConvertedTransaction's None; transaction ids start at 1.
NoTransaction == 0

Streams == {"dev", "rel"}
Branches == Streams \cup {"master"}

RECURSIVE SeqToSet(_)
SeqToSet(s) == IF s = <<>> THEN {} ELSE {Head(s)} \cup SeqToSet(Tail(s))

\* ------------------------------------------------------------- paths
\* "/." : the depot root marker GetParentPaths stops at.
RootMarker == <<"", ".">>
PDir == <<"", ".", "dir">>
PA == <<"", ".", "dir", "a.txt">>
PSub == <<"", ".", "dir", "sub">>
PB == <<"", ".", "dir", "sub", "b.txt">>
PC == <<"", ".", "c.txt">>
PLink == <<"", ".", "link">>

\* str.rstrip('/') on a string that has a character other than '/'.
RECURSIVE RStripSlash(_)
RStripSlash(p) ==
  IF Len(p) > 1 /\ p[Len(p)] = "" THEN RStripSlash(SubSeq(p, 1, Len(p) - 1)) ELSE p

\* posixpath.dirname: the head up to and including the last '/', with the
\* trailing slashes stripped unless the head is made of slashes only.
Dirname(p) ==
  IF Len(p) = 1 THEN <<"">>
  ELSE LET head == Append(SubSeq(p, 1, Len(p) - 1), "")
       IN IF \A i \in 1..Len(head) : head[i] = "" THEN head ELSE RStripSlash(head)

\* The while loop of GetParentPaths.  The loop ends only at the root marker; a
\* path whose dirname is itself and is not the marker keeps it going for ever
\* (terminates = FALSE).
RECURSIVE ParentLoop(_, _)
ParentLoop(elemPath, parents) ==
  LET d == Dirname(elemPath)
  IN IF d = RootMarker THEN [terminates |-> TRUE, parents |-> parents]
     ELSE IF d = elemPath THEN [terminates |-> FALSE, parents |-> Append(parents, d)]
     ELSE ParentLoop(d, Append(parents, d))

GetParentPaths(elemPath) == ParentLoop(elemPath, <<>>)

\* accurevDepotElementPath[3:] : the path without its leading "/./".
LocalElementPath(p) == SubSeq(p, 3, Len(p))

\* ------------------------------------------------------------- transactions
IgnoredTypes == {"add", "chstream", "co", "defunct", "keep", "move", "mkstream",
                 "purge", "undefunct", "defcomp"}
\* The keys of AccuRev2Git.transactionHandlers.
HandledTypes == IgnoredTypes \cup {"promote"}

DirPaths == {PDir, PSub}
\* /./link is a link to a directory: a directory by its flag, "elink" by kind.
LinkPaths == {PLink}

\* A Version of a transaction: its path, directory flag, element kind and the
\* stream of its virtual version.
Version(path, stream) ==
  [path |-> path, dir |-> path \in DirPaths \cup LinkPaths,
   elemType |-> IF path \in LinkPaths THEN "elink"
                ELSE IF path \in DirPaths THEN "dir" ELSE "text",
   stream |-> stream]

Transaction(id, type, comment, versions) ==
  [id |-> id, Type |-> type, user |-> "joe", comment |-> comment, versions |-> versions]

\* Free-text comments: absent, empty, plain text.
NoComment == [isNone |-> TRUE, text |-> <<>>]
PlainComment == [isNone |-> FALSE, text |-> <<0>>]

GetTransactionDestStream(transaction) ==
  IF Len(transaction.versions) > 0 THEN transaction.versions[1].stream ELSE None

\* ------------------------------------------------------------- classifier
\* dirList: the parents of every version, each once, in order of discovery.
RECURSIVE AppendNew(_, _)
AppendNew(list, items) ==
  IF items = <<>> THEN list
  ELSE AppendNew(IF Head(items) \in SeqToSet(list) THEN list ELSE Append(list, Head(items)),
                 Tail(items))

RECURSIVE DirList(_)
DirList(versions) ==
  IF versions = <<>> THEN <<>>
  ELSE AppendNew(DirList(SubSeq(versions, 1, Len(versions) - 1)),
                 GetParentPaths(versions[Len(versions)].path).parents)

ElemList(versions) == [i \in 1..Len(versions) |-> versions[i].path]

\* fullList = dirList + elemList : the paths the status query is asked about.
FullList(transaction) == DirList(transaction.versions) \o ElemList(transaction.versions)

\* The inner loop over the parents of a version that is not defunct itself:
\* a parent missing from infoDict raises, the first defunct parent strands.
RECURSIVE WalkParentsNearestOnly(_, _, _)
WalkParentsNearestOnly(infoDict, parents, i) ==
  IF i > Len(parents) \/ i > 1 THEN "member"
  ELSE IF parents[i] \notin DOMAIN infoDict THEN "raise"
  ELSE IF infoDict[parents[i]] THEN "stranded"
  ELSE WalkParentsNearestOnly(infoDict, parents, i + 1)

RECURSIVE WalkParents(_, _, _)
WalkParents(infoDict, parents, i) ==
  IF i > Len(parents) THEN "member"
  ELSE IF parents[i] \notin DOMAIN infoDict THEN "raise"
  ELSE IF infoDict[parents[i]] THEN "stranded"
  ELSE WalkParents(infoDict, parents, i + 1)

\* The parent directories are looked at before the element's own flag.
ClassOfParentsFirst(infoDict, version) ==
  IF version.path \notin DOMAIN infoDict THEN "raise"
  ELSE IF WalkParents(infoDict, GetParentPaths(version.path).parents, 1) # "member"
  THEN WalkParents(infoDict, GetParentPaths(version.path).parents, 1)
  ELSE IF infoDict[version.path] THEN "defunct"
  ELSE "member"

\* The body of the loop over transaction.versions: the list the version goes to,
\* or "raise" for the KeyError turned into an Exception.
ClassOf(infoDict, version) ==
  IF version.path \notin DOMAIN infoDict THEN "raise"
  ELSE IF infoDict[version.path] THEN "defunct"
  ELSE WalkParents(infoDict, GetParentPaths(version.path).parents, 1)

DefunctVersions(transaction, infoDict) ==
  SelectSeq(transaction.versions, LAMBDA v : ClassOf(infoDict, v) = "defunct")

StrandedVersions(transaction, infoDict) ==
  SelectSeq(transaction.versions, LAMBDA v : ClassOf(infoDict, v) = "stranded")

\* "elif isStranded" read as "if": a stranded version lands in member as well.
MemberVersionsNoElif(transaction, infoDict) ==
  SelectSeq(transaction.versions, LAMBDA v : ClassOf(infoDict, v) \notin {"defunct", "raise"})

MemberVersions(transaction, infoDict) ==
  SelectSeq(transaction.versions, LAMBDA v : ClassOf(infoDict, v) = "member")

\* The status query goes through the list file .stat_list when fullList is
\* longer than maxCmdItems.
UsesListFile(transaction) == Len(FullList(transaction)) > maxCmdItems

\* SplitElementsByStatusViaStat.  info is what accurev.stat did: raises when
\* it raised, isNone when it returned None, else dict is infoDict (location ->
\* "(defunct)" in statusList).  arity is the size of the tuple returned: the
\* empty fullList returns two lists, every other normal return three.
\* listFile: the list file was written; fileLeft: it exists when the function
\* is left, os.remove following the return of accurev.stat.
SplitElementsByStatusViaStat(transaction, info) ==
  IF Len(FullList(transaction)) = 0
  THEN [raised |-> FALSE, arity |-> 2, member |-> <<>>, defunct |-> <<>>, stranded |-> <<>>,
        listFile |-> FALSE, fileLeft |-> FALSE]
  ELSE IF info.raises
  THEN [raised |-> TRUE, arity |-> 0, member |-> <<>>, defunct |-> <<>>, stranded |-> <<>>,
        listFile |-> UsesListFile(transaction), fileLeft |-> UsesListFile(transaction)]
  ELSE IF info.isNone \/ \E i \in 1..Len(transaction.versions) :
                             ClassOf(info.dict, transaction.versions[i]) = "raise"
  THEN [raised |-> TRUE, arity |-> 0, member |-> <<>>, defunct |-> <<>>, stranded |-> <<>>,
        listFile |-> UsesListFile(transaction), fileLeft |-> FALSE]
  ELSE [raised |-> FALSE, arity |-> 3,
        member |-> MemberVersions(transaction, info.dict),
        defunct |-> DefunctVersions(transaction, info.dict),
        stranded |-> StrandedVersions(transaction, info.dict),
        listFile |-> UsesListFile(transaction), fileLeft |-> FALSE]

\* ------------------------------------------------------------- target repository
\* The state the git helpers work on, as one value g:
\*   branchList  the module global cache: isNone, or items (name, isCurrent);
\*   tip         branch -> message of its newest commit, <<>> when the branch
\*               does not exist (an unborn HEAD has no branch);
\*   head        the active branch;
\*   commits     every commit GitCommit created, oldest first;
\*   index       the staged changes no commit holds yet: the transaction they
\*               come from, "add" or "rm", the path.
NoBranchList == [isNone |-> TRUE, items |-> {}]
Cached(items) == [isNone |-> FALSE, items |-> items]

\* gitRepo.branch_list(): the existing branches, the active one flagged.
GitBranchList(g) ==
  {[name |-> b, isCurrent |-> b = g.head] : b \in {x \in Branches : g.tip[x] # <<>>}}

\* gitRepo.checkout(branchName, isNewBranch): "checkout -b" creates the branch
\* at the current position and fails when it exists; "checkout" switches to an
\* existing branch and fails when there is none.
GitCheckout(g, branchName, isNewBranch) ==
  IF isNewBranch
  THEN IF g.tip[branchName] # <<>> THEN g
       ELSE [g EXCEPT !.tip[branchName] = g.tip[g.head], !.head = branchName]
  ELSE IF g.tip[branchName] = <<>> THEN g ELSE [g EXCEPT !.head = branchName]

\* isNewBranch stays True when the branch is found in the list.
CheckoutBranchAlwaysNew(g, branchName) ==
  LET list == IF g.branchList.isNone THEN GitBranchList(g) ELSE g.branchList.items
  IN IF list = {}
     THEN LET g1 == IF g.head # branchName THEN GitCheckout(g, branchName, TRUE) ELSE g
          IN [g |-> [g1 EXCEPT !.branchList =
                                  Cached({[name |-> branchName, isCurrent |-> TRUE]})],
              raised |-> FALSE,
              op |-> IF g.head # branchName THEN "create" ELSE "none"]
     ELSE IF \E b \in list : b.name = branchName /\ b.isCurrent
     THEN [g |-> [g EXCEPT !.branchList = Cached(list)], raised |-> FALSE, op |-> "none"]
     ELSE LET g1 == GitCheckout(g, branchName, TRUE)
              fresh == GitBranchList(g1)
          IN [g |-> [g1 EXCEPT !.branchList = Cached(fresh)],
              raised |-> ~ \E b \in fresh : b.isCurrent,
              op |-> "create"]

\* CheckoutBranch.  op is the checkout issued: "none", "create" or "switch".
CheckoutBranch(g, branchName) ==
  LET list == IF g.branchList.isNone THEN GitBranchList(g) ELSE g.branchList.items
  IN IF list = {}
     THEN LET g1 == IF g.head # branchName THEN GitCheckout(g, branchName, TRUE) ELSE g
          IN [g |-> [g1 EXCEPT !.branchList =
                                  Cached({[name |-> branchName, isCurrent |-> TRUE]})],
              raised |-> FALSE,
              op |-> IF g.head # branchName THEN "create" ELSE "none"]
     ELSE IF \E b \in list : b.name = branchName /\ b.isCurrent
     THEN [g |-> [g EXCEPT !.branchList = Cached(list)], raised |-> FALSE, op |-> "none"]
     ELSE LET isNewBranch == ~ \E b \in list : b.name = branchName
              g1 == GitCheckout(g, branchName, isNewBranch)
              fresh == GitBranchList(g1)
          IN [g |-> [g1 EXCEPT !.branchList = Cached(fresh)],
              raised |-> ~ \E b \in fresh : b.isCurrent,
              op |-> IF isNewBranch THEN "create" ELSE "switch"]

\* AccurevComment2GitMessage: the comment (or the placeholder), then the tag.
AccurevComment2GitMessage(transaction) ==
  (IF transaction.comment.isNone THEN <<0>> ELSE transaction.comment.text)
    \o <<transaction.id>>

\* GetGitUserDetails: gitName and gitEmail of the first entry of the user map
\* whose accurevUsername is the user's; None, None without such an entry or
\* for the user None.  A name or an address is a text or None.
NoText == [isNone |-> TRUE, text |-> <<>>]
Text(t) == [isNone |-> FALSE, text |-> t]

RECURSIVE GetGitUserDetails(_, _)
GetGitUserDetails(usermaps, accurevUsername) ==
  IF accurevUsername = None \/ usermaps = <<>>
  THEN [gitName |-> NoText, gitEmail |-> NoText]
  ELSE IF Head(usermaps).accurevUsername = accurevUsername
  THEN [gitName |-> Head(usermaps).gitName, gitEmail |-> Head(usermaps).gitEmail]
  ELSE GetGitUserDetails(Tail(usermaps), accurevUsername)

\* An entry without name is taken for no entry.
AccurevUser2GitAuthorWholeEntry(usermaps, accurevUser) ==
  LET details == GetGitUserDetails(usermaps, accurevUser)
  IN IF details.gitName.isNone
     THEN [name |-> <<accurevUser>>, email |-> <<accurevUser, "@no-email.com">>]
     ELSE [name |-> details.gitName.text,
           email |-> IF details.gitEmail.isNone THEN <<accurevUser, "@no-email.com">>
                     ELSE details.gitEmail.text]

\* AccurevUser2GitAuthor: "name <email>", the name being the user's own and
\* the address "<user>@no-email.com" where the user map gives None.
AccurevUser2GitAuthor(usermaps, accurevUser) ==
  LET details == GetGitUserDetails(usermaps, accurevUser)
  IN [name |-> IF details.gitName.isNone THEN <<accurevUser>> ELSE details.gitName.text,
      email |-> IF details.gitEmail.isNone THEN <<accurevUser, "@no-email.com">>
                ELSE details.gitEmail.text]

\* The outcomes of gitRepo.commit: "ok"; "nothing" (lastError says nothing to
\* commit); "error" (lastError says something else); "errorNoLast" (a false
\* status with lastError None).
CommitOutcomes == {"ok", "nothing", "error", "errorNoLast"}

\* min of Python.
Min(a, b) == IF a < b THEN a ELSE b

\* The next batch reaches one item past its end.
TakeBatchOverlapping(list, maxItems) ==
  [tmpList |-> SubSeq(list, 1, Min(maxItems, Len(list))),
   rest |-> SubSeq(list, Min(maxItems, Len(list)) + 2, Len(list))]

\* One pass of a batching loop of GitCommit: tmpList = list[:min(maxItems,
\* len(list))], and the list that is left, list[min(maxItems, len(list)):].
TakeBatch(list, maxItems) ==
  [tmpList |-> SubSeq(list, 1, Min(maxItems, Len(list))),
   rest |-> SubSeq(list, Min(maxItems, Len(list)) + 1, Len(list))]

\* The batches a loop of GitCommit hands to gitRepo.add or gitRepo.rm, in
\* the order of the calls; the loop ends at the first empty batch.
RECURSIVE Batches(_, _)
Batches(list, maxItems) ==
  LET b == TakeBatch(list, maxItems)
  IN IF Len(b.tmpList) > 0 THEN <<b.tmpList>> \o Batches(b.rest, maxItems) ELSE <<>>

\* The paths of a sequence of batches, in the order git is handed them.
RECURSIVE Passed(_)
Passed(batches) ==
  IF batches = <<>> THEN <<>> ELSE Head(batches) \o Passed(Tail(batches))

\* What gitRepo.add and gitRepo.rm of the paths passed stage for a transaction.
Staged(id, added, removed) ==
  {[id |-> id, op |-> "add", path |-> p] : p \in SeqToSet(added)}
    \cup {[id |-> id, op |-> "rm", path |-> p] : p \in SeqToSet(removed)}

\* gitRepo.add(update=True) after RecursivelyRemoveDir(path): the scan stages
\* the deletion of the tracked files that the removal took out of the working
\* tree, which are those of a path relative to it; a depot path, "/./...", is
\* a path of the file system root.
UpdateScan(id, removedDirs) ==
  {[id |-> id, op |-> "rm", path |-> p] :
     p \in {d \in SeqToSet(removedDirs) : Len(d) > 0 /\ d[1] # ""}}

\* A commit after the add loop and another after the rm loop.
GitCommitPerLoop(g, transaction, branch, message, addList, rmList, outcome) ==
  LET co == CheckoutBranch(g, branch)
      g1 == co.g
      staged == g1.index \cup Staged(transaction.id, Passed(Batches(addList, maxCmdItems)),
                                     Passed(Batches(rmList, maxCmdItems)))
      made == [branch |-> g1.head, id |-> transaction.id, message |-> message,
               add |-> Passed(Batches(addList, maxCmdItems)),
               rm |-> Passed(Batches(rmList, maxCmdItems)),
               changes |-> staged]
  IN IF co.raised THEN [g |-> g1, raised |-> TRUE, status |-> FALSE, op |-> co.op]
     ELSE IF outcome = "ok"
     THEN [g |-> [g1 EXCEPT !.tip[g1.head] = message, !.index = {},
                            !.commits = Append(Append(@, made), made)],
           raised |-> FALSE, status |-> TRUE, op |-> co.op]
     ELSE IF outcome = "nothing"
     THEN [g |-> [g1 EXCEPT !.index = {}], raised |-> FALSE, status |-> FALSE, op |-> co.op]
     ELSE [g |-> [g1 EXCEPT !.index = staged], raised |-> FALSE, status |-> FALSE,
           op |-> co.op]

\* GitCommit: checkout of the branch, the batched add and rm, the commit.  A
\* commit holds the paths the batches staged and removed and, as changes, all
\* that the index held; a commit that fails leaves the index as staged, and
\* git finds 'nothing to commit' when the index holds no change.
GitCommit(g, transaction, branch, message, addList, rmList, outcome) ==
  LET co == CheckoutBranch(g, branch)
      g1 == co.g
      staged == g1.index \cup Staged(transaction.id, Passed(Batches(addList, maxCmdItems)),
                                     Passed(Batches(rmList, maxCmdItems)))
      made == [branch |-> g1.head, id |-> transaction.id, message |-> message,
               add |-> Passed(Batches(addList, maxCmdItems)),
               rm |-> Passed(Batches(rmList, maxCmdItems)),
               changes |-> staged]
  IN IF co.raised THEN [g |-> g1, raised |-> TRUE, status |-> FALSE, op |-> co.op]
     ELSE IF outcome = "ok"
     THEN [g |-> [g1 EXCEPT !.tip[g1.head] = message, !.index = {},
                            !.commits = Append(@, made)],
           raised |-> FALSE, status |-> TRUE, op |-> co.op]
     ELSE IF outcome = "nothing"
     THEN [g |-> [g1 EXCEPT !.index = {}], raised |-> FALSE, status |-> FALSE, op |-> co.op]
     ELSE [g |-> [g1 EXCEPT !.index = staged], raised |-> FALSE, status |-> FALSE,
           op |-> co.op]

\* ------------------------------------------------------------- handlers
\* The allow-list is not consulted.
IsStreamAllowedAny(streamList, streamName) == streamName # None

IsStreamAllowed(streamList, streamName) ==
  IF streamName # None
  THEN IF streamList.isNone THEN TRUE ELSE streamName \in streamList.names
  ELSE FALSE

IsRealDir(version) ==
  version.dir /\ ~ (version.elemType = "slink" \/ version.elemType = "elink")

\* addList: the local paths of the populated members that are not directories.
AddListOf(member) ==
  LET files == SelectSeq(member, LAMBDA v : ~ v.dir)
  IN [i \in 1..Len(files) |-> LocalElementPath(files[i].path)]

\* rmList: the local paths of the defunct versions that are not real directories.
RmListOf(defunct) ==
  LET files == SelectSeq(defunct, LAMBDA v : ~ IsRealDir(v))
  IN [i \in 1..Len(files) |-> LocalElementPath(files[i].path)]

\* The paths handed to RecursivelyRemoveDir (each followed by git add -u).
RemovedDirsOf(defunct) ==
  LET dirs == SelectSeq(defunct, LAMBDA v : IsRealDir(v))
  IN [i \in 1..Len(dirs) |-> dirs[i].path]

NoInfo == [isNone |-> TRUE, dict |-> <<>>, raises |-> FALSE]
StatRaised == [isNone |-> TRUE, dict |-> <<>>, raises |-> TRUE]
NoSplit == [raised |-> FALSE, arity |-> 0, member |-> <<>>, defunct |-> <<>>,
            stranded |-> <<>>, listFile |-> FALSE, fileLeft |-> FALSE]

\* What the handler of a transaction has done so far.  ret: "running" inside
\* OnPromote; "true"/"false"/"none" for the value returned; "exit" for
\* sys.exit(1); "raise" for an exception, which nothing catches.
NewTrace(transaction) ==
  [acted |-> TRUE, transaction |-> transaction, ret |-> "running",
   noHandler |-> FALSE, statCalled |-> FALSE, info |-> NoInfo, split |-> NoSplit,
   popCalled |-> FALSE, popFailed |-> FALSE, addList |-> <<>>, rmList |-> <<>>, removedDirs |-> <<>>,
   commitAttempted |-> FALSE, commitOutcome |-> "none", commitMade |-> FALSE,
   checkoutOp |-> "none"]

NoTrace ==
  [NewTrace(Transaction(0, "none", NoComment, <<>>)) EXCEPT !.acted = FALSE,
                                                            !.ret = "none"]

\* OnPromote up to the end of SplitElementsByStatusViaStat; info is what
\* accurev.stat answers.
OnPromoteSplit(transaction, info, streamList) ==
  LET stream == GetTransactionDestStream(transaction)
      split == SplitElementsByStatusViaStat(transaction, info)
  IN IF Len(transaction.versions) = 0 \/ stream = None
     THEN [NewTrace(transaction) EXCEPT !.ret = "false"]
     ELSE IF ~ IsStreamAllowed(streamList, stream)
     THEN [NewTrace(transaction) EXCEPT !.ret = "false"]
     ELSE [NewTrace(transaction) EXCEPT !.statCalled = TRUE, !.info = info,
                                        !.split = split,
                                        !.ret = IF split.raised THEN "raise" ELSE "running"]

\* "keep" routed to the handler of "promote".
ProcessAccuRevTransactionKeepPromoted(transaction, info, streamList) ==
  IF transaction.Type \in {"promote", "keep"}
  THEN OnPromoteSplit(transaction, info, streamList)
  ELSE IF transaction.Type \in HandledTypes
  THEN [NewTrace(transaction) EXCEPT !.ret = "none"]
  ELSE [NewTrace(transaction) EXCEPT !.ret = "none", !.noHandler = TRUE]

\* A type without handler ends the process.
ProcessAccuRevTransactionUnknownFatal(transaction, info, streamList) ==
  IF transaction.Type = "promote" THEN OnPromoteSplit(transaction, info, streamList)
  ELSE IF transaction.Type \in HandledTypes
  THEN [NewTrace(transaction) EXCEPT !.ret = "none"]
  ELSE [NewTrace(transaction) EXCEPT !.ret = "exit", !.noHandler = TRUE]

\* ProcessAccuRevTransaction: the handler of the transaction's type, or the
\* logged error when the type has none.  Every handler but OnPromote only logs.
ProcessAccuRevTransaction(transaction, info, streamList) ==
  IF transaction.Type = "promote" THEN OnPromoteSplit(transaction, info, streamList)
  ELSE IF transaction.Type \in HandledTypes
  THEN [NewTrace(transaction) EXCEPT !.ret = "none"]
  ELSE [NewTrace(transaction) EXCEPT !.ret = "none", !.noHandler = TRUE]

\* "If we have something to commit": the test before GitCommit.
SomethingToCommitAlways(addList, rmList) == TRUE

SomethingToCommit(addList, rmList) == Len(addList) > 0 \/ Len(rmList) > 0

\* A failed populate taken for a successful one.
AfterPopulateIgnoringFailure(trace, popOk) ==
  LET needed == Len(trace.split.member) > 0
      addList == AddListOf(trace.split.member)
      rmList == RmListOf(trace.split.defunct)
  IN [trace EXCEPT !.popCalled = needed, !.popFailed = needed /\ ~ popOk,
                   !.addList = addList, !.rmList = rmList,
                   !.removedDirs = RemovedDirsOf(trace.split.defunct),
                   !.ret = IF SomethingToCommit(addList, rmList) THEN "running"
                           ELSE "false"]

\* OnPromote from the populate of the members to the test for something to
\* commit; popOk is what accurev.pop answers when it is called.  A failed
\* populate is sys.exit(1); else the add list, the removal of the defunct
\* directories, the remove list, and False when both lists are empty.
AfterPopulate(trace, popOk) ==
  LET needed == Len(trace.split.member) > 0
      addList == AddListOf(trace.split.member)
      rmList == RmListOf(trace.split.defunct)
  IN IF needed /\ ~ popOk
     THEN [trace EXCEPT !.popCalled = TRUE, !.popFailed = TRUE, !.ret = "exit"]
     ELSE [trace EXCEPT !.popCalled = needed, !.addList = addList, !.rmList = rmList,
                        !.removedDirs = RemovedDirsOf(trace.split.defunct),
                        !.ret = IF SomethingToCommit(addList, rmList) THEN "running"
                                ELSE "false"]

\* 'nothing to commit' taken for a fatal failure.
CommitResultNothingFatal(outcome) ==
  CASE outcome = "ok" -> "true"
    [] outcome = "nothing" -> "exit"
    [] outcome = "error" -> "false"
    [] OTHER -> "raise"

\* The value OnPromote returns after GitCommit, "raise" when its error branch
\* reads gitRepo.lastError.output of a lastError that is None.
CommitResult(outcome) ==
  CASE outcome = "ok" -> "true"
    [] outcome = "nothing" -> "true"
    [] outcome = "error" -> "false"
    [] OTHER -> "raise"

\* ------------------------------------------------------------- checkpoint
\* re.search of 'AccuRev Transaction #([0-9]+)': the first occurrence in the
\* text, 0 when there is none.
RECURSIVE ReSearch(_)
ReSearch(text) ==
  IF text = <<>> THEN 0
  ELSE IF Head(text) > 0 THEN Head(text) ELSE ReSearch(Tail(text))

\* The output of `git log -1`: the commit, author and date lines, then the
\* message of the newest commit of the active branch.
GitLogLast(g) == <<0>> \o g.tip[g.head]

\* `git status` says 'Initial commit' when the active branch has no commit.
IsInitialCommit(g) == g.tip[g.head] = <<>>

\* GetLastConvertedTransaction: the configured start on a repository without
\* commits, else the tag found in the newest commit plus one, else None.
GetLastConvertedTransaction(g, start) ==
  IF IsInitialCommit(g) THEN start
  ELSE IF ReSearch(GitLogLast(g)) # 0 THEN ReSearch(GitLogLast(g)) + 1
  ELSE NoTransaction

\* ------------------------------------------------------------- state
VARIABLES
  pc,        \* where the process is: in Start, returned, exited, crashed, killed
  step,      \* where OnPromote is: "idle" outside it, "populate", "commit"
  run,       \* "first"; "resumed" after a killed process; "rerun" after one that ended
  config,    \* config.accurev: startTransaction, endTransaction, streamList
  maxTransactions,  \* the module global: the size of a history window
  depot,     \* transaction id -> what the depot holds for it and answers about it
  isRepo,    \* whether the target directory holds a git repository
  branchList, tip, head, commits,        \* the target repository (see above)
  continueFromTransaction, endTransaction,  \* the locals of Start
  resumeId,  \* what GetLastConvertedTransaction returned to this process
  arHist,    \* the transactions of the current history window not yet processed
  queries,   \* the history queries of this process: from, to, ok
  histFailed,  \* a history query of this or an earlier process was not completed
  dispatched,  \* the ids handed to ProcessAccuRevTransaction by this process
  committed,   \* the ids of the commits this process created, oldest first
  loggedIn,  \* the AccuRev session is open
  rv,        \* what Start returned: "0" or "1", None so far or for a bare return
  last,      \* what the handler of the current or last transaction did
  prev,      \* what the handler of the transaction before that one did
  call,      \* a function called on its own: its arguments, its locals, its result
  index,     \* the changes staged in the index of the target and not committed
  logouts    \* the calls of accurev.logout by this process

vars == <<pc, step, run, config, maxTransactions, depot, isRepo, branchList, tip,
          head, commits, continueFromTransaction, endTransaction, resumeId, arHist,
          queries, histFailed, dispatched, committed, loggedIn, rv, last, prev, call, index, logouts>>

G == [branchList |-> branchList, tip |-> tip, head |-> head, commits |-> commits,
      index |-> index]

SetG(g) ==
  /\ branchList' = g.branchList
  /\ tip' = g.tip
  /\ head' = g.head
  /\ commits' = g.commits
  /\ index' = g.index

NoTip == [b \in Branches |-> <<>>]
NoCall == [fn |-> "none"]
NoStreamList == [isNone |-> TRUE, names |-> {}]

\* config.accurev.streamList: None without a stream-list element, else the
\* streams the element lists.
StreamLists == {NoStreamList, [isNone |-> FALSE, names |-> {"dev"}]}

\* ------------------------------------------------------------- the depot
\* What the depot holds for a transaction id.  In a whole run: a promotion of
\* the file /./c.txt to dev or to rel that git commits, one to rel that git
\* finds nothing to commit for, or a keep; the same at every reading.  "any"
\* stands for a transaction of any shape with any answers.
Scenarios == {"dev", "rel", "relNothing", "keep"}

ScenarioTransaction(scenario, id) ==
  Transaction(id, IF scenario = "keep" THEN "keep" ELSE "promote", PlainComment,
              <<Version(PC, IF scenario = "dev" THEN "dev" ELSE "rel")>>)

VersionPaths == {PDir, PA, PB, PC, PLink}

\* The version lists: up to MaxVersions versions of distinct paths, any order.
PathSeqs ==
  {ps \in UNION {[1..n -> VersionPaths] : n \in 0..MaxVersions} :
     \A i, j \in DOMAIN ps : i # j => ps[i] # ps[j]}

\* A comment that itself holds the text of a transaction tag.
TagLikeComments == {[isNone |-> FALSE, text |-> <<n>>] : n \in 1..MaxTx}
Comments ==
  {NoComment, [isNone |-> FALSE, text |-> <<>>], PlainComment} \cup TagLikeComments

Inputs(id) ==
  {Transaction(id, "promote", PlainComment, [i \in DOMAIN ps |-> Version(ps[i], s)]) :
     ps \in PathSeqs, s \in Streams \cup {None}}
  \cup {Transaction(id, "promote", c, <<Version(PC, "dev")>>) : c \in Comments}
  \cup {Transaction(id, t, PlainComment, <<Version(PC, "dev")>>) :
          t \in IgnoredTypes \cup {"unknown"}}

\* The transaction of an id, as accurev.hist returns it.
TransactionsOf(id) ==
  IF depot[id] = "any" THEN Inputs(id) ELSE {ScenarioTransaction(depot[id], id)}

\* What accurev.stat can do when asked about fullList: raise, return None, or
\* return the flags of any part of the paths asked about.
StatResults(transaction) ==
  {NoInfo, StatRaised} \cup
  {[isNone |-> FALSE, dict |-> d, raises |-> FALSE] :
     d \in UNION {[S -> BOOLEAN] : S \in SUBSET SeqToSet(FullList(transaction))}}

StatAnswers(transaction) ==
  IF depot[transaction.id] = "any" THEN StatResults(transaction)
  ELSE {[isNone |-> FALSE, dict |-> [p \in {PC} |-> FALSE], raises |-> FALSE]}

PopAnswers(id) == IF depot[id] = "any" THEN BOOLEAN ELSE {TRUE}

CommitAnswers(id) ==
  IF depot[id] = "any" THEN CommitOutcomes
  ELSE IF depot[id] = "relNothing" THEN {"nothing"} ELSE {"ok"}

\* accurev.hist of the range a-b: the transactions a..b, oldest first.
HistRange(a, b) == [i \in 1..(b - a + 1) |-> a + i - 1]

\* ------------------------------------------------------------- Start
Running == pc \in {"start", "login", "resolve", "loop", "window", "remaining"}

\* stopAtTransaction and the advance of the while loop of Start.
StopAtTransaction(from, window) == from + window - 1

NextWindowOverlapping(from, window) == from + window - 1

NextWindow(from, window) == from + window

Init ==
  /\ pc = "start"
  /\ step = "idle"
  /\ run = "first"
  /\ config \in [startTransaction : 1..MaxTx, endTransaction : 1..MaxTx,
                 streamList : {NoStreamList}]
  /\ maxTransactions \in 1..MaxWindow
  /\ depot \in [1..MaxTx -> Scenarios]
  /\ isRepo \in BOOLEAN
  /\ branchList = NoBranchList
  /\ tip = IF isRepo THEN [NoTip EXCEPT !["master"] = <<0>>] ELSE NoTip
  /\ head = "master"
  /\ commits = <<>>
  /\ continueFromTransaction = NoTransaction
  /\ endTransaction = NoTransaction
  /\ resumeId = NoTransaction
  /\ arHist = <<>>
  /\ queries = <<>>
  /\ histFailed = FALSE
  /\ dispatched = <<>>
  /\ committed = <<>>
  /\ loggedIn = FALSE
  /\ rv = None
  /\ last = NoTrace
  /\ prev = NoTrace
  /\ call = NoCall
  /\ logouts = 0
  /\ index = {}

\* Start up to the login: git.delete on a restart, InitGitRepo, git.open, clean.
\* outcome: "ok"; "noRoot" (the parent directory is missing, InitGitRepo
\* returns False and Start returns None); "initFailed" (git.init fails, exit).
StartInit ==
  /\ pc = "start"
  /\ \E isRestart \in BOOLEAN, outcome \in {"ok", "noRoot", "initFailed"} :
       LET kept == isRepo /\ ~ isRestart
       IN /\ outcome = "initFailed" => ~ kept
          /\ isRepo' = IF outcome = "ok" THEN TRUE ELSE kept
          /\ tip' = IF kept THEN tip ELSE NoTip
          /\ head' = IF kept THEN head ELSE "master"
          /\ commits' = IF kept THEN commits ELSE <<>>
          /\ index' = IF kept THEN index ELSE {}
          /\ pc' = CASE outcome = "ok" -> "login"
                     [] outcome = "noRoot" -> "returned"
                     [] OTHER -> "exited"
  /\ UNCHANGED <<call, logouts, step, run, config, maxTransactions, depot, branchList,
                 continueFromTransaction, endTransaction, resumeId, arHist, queries,
                 histFailed, dispatched, committed, loggedIn, rv, last, prev>>

\* accurev.login: on failure Start returns 1.
Login ==
  /\ pc = "login"
  /\ \E ok \in BOOLEAN :
       /\ loggedIn' = ok
       /\ pc' = IF ok THEN "resolve" ELSE "returned"
       /\ rv' = IF ok THEN rv ELSE "1"
  /\ UNCHANGED <<call, logouts, index, step, run, config, maxTransactions, depot, isRepo, branchList, tip,
                 head, commits, continueFromTransaction, endTransaction, resumeId,
                 arHist, queries, histFailed, dispatched, committed, last, prev>>

\* What Start does with continueFromTransaction: it returns 1 on None.
AfterResolveUnchecked(from) == [pc |-> "loop", rv |-> None]

AfterResolve(from) ==
  IF from = NoTransaction THEN [pc |-> "returned", rv |-> "1"]
  ELSE [pc |-> "loop", rv |-> None]

\* GetLastConvertedTransaction and GetEndTransactionNumber (-1 when its history
\* query fails), then the check of the first.
Resolve ==
  /\ pc = "resolve"
  /\ \E histOk \in BOOLEAN :
       /\ endTransaction' = IF histOk THEN config.endTransaction ELSE -1
       /\ histFailed' = (histFailed \/ ~ histOk)
  /\ continueFromTransaction' = GetLastConvertedTransaction(G, config.startTransaction)
  /\ resumeId' = continueFromTransaction'
  /\ pc' = AfterResolve(continueFromTransaction').pc
  /\ rv' = AfterResolve(continueFromTransaction').rv
  /\ UNCHANGED <<call, logouts, index, step, run, config, maxTransactions, depot, isRepo, branchList, tip,
                 head, commits, arHist, queries, dispatched, committed, loggedIn, last, prev>>

\* ProcessAccuRevTransactionRange: the history query of the range from-to
\* (None when it cannot be completed), whose transactions are then processed.
Query(from, to, ok) ==
  /\ queries' = Append(queries, [from |-> from, to |-> to, ok |-> ok])
  /\ arHist' = IF ok THEN HistRange(from, to) ELSE <<>>
  /\ histFailed' = (histFailed \/ ~ ok)

\* One pass of the while loop: a full window is left.
QueryWindow ==
  /\ pc = "loop"
  /\ endTransaction - continueFromTransaction > maxTransactions
  /\ \E ok \in BOOLEAN :
       Query(continueFromTransaction,
             StopAtTransaction(continueFromTransaction, maxTransactions), ok)
  /\ pc' = "window"
  /\ UNCHANGED <<call, logouts, index, step, run, config, maxTransactions, depot, isRepo, branchList, tip,
                 head, commits, continueFromTransaction, endTransaction, resumeId,
                 dispatched, committed, loggedIn, rv, last, prev>>

\* The window is processed: continueFromTransaction += maxTransactions.
WindowDone ==
  /\ pc = "window"
  /\ step = "idle"
  /\ arHist = <<>>
  /\ continueFromTransaction' = NextWindow(continueFromTransaction, maxTransactions)
  /\ pc' = "loop"
  /\ UNCHANGED <<call, logouts, index, step, run, config, maxTransactions, depot, isRepo, branchList, tip,
                 head, commits, endTransaction, resumeId, arHist, queries, histFailed,
                 dispatched, committed, loggedIn, rv, last, prev>>

\* After the loop: the remaining transactions, when there are any.
QueryRemaining ==
  /\ pc = "loop"
  /\ ~ (endTransaction - continueFromTransaction > maxTransactions)
  /\ endTransaction - continueFromTransaction > 0
  /\ \E ok \in BOOLEAN : Query(continueFromTransaction, endTransaction, ok)
  /\ pc' = "remaining"
  /\ UNCHANGED <<call, logouts, index, step, run, config, maxTransactions, depot, isRepo, branchList, tip,
                 head, commits, continueFromTransaction, endTransaction, resumeId,
                 dispatched, committed, loggedIn, rv, last, prev>>

\* How the process goes on after a handler step that ended with ret.
PcAfter(ret) ==
  CASE ret = "exit" -> "exited"
    [] ret = "raise" -> "crashed"
    [] OTHER -> pc

\* The loop body of ProcessAccuRevTransactionRange: the next transaction of
\* the window goes to ProcessAccuRevTransaction; a promotion gets as far as
\* the status query and the split.
Dispatch ==
  /\ pc \in {"window", "remaining"}
  /\ step = "idle"
  /\ arHist # <<>>
  /\ \E transaction \in TransactionsOf(Head(arHist)) :
       \E info \in StatAnswers(transaction) :
         \E trace \in {ProcessAccuRevTransaction(transaction, info, config.streamList)} :
           /\ last' = trace
           /\ step' = IF trace.ret = "running" THEN "populate" ELSE "idle"
           /\ pc' = PcAfter(trace.ret)
  /\ dispatched' = Append(dispatched, Head(arHist))
  /\ arHist' = Tail(arHist)
  /\ prev' = last
  /\ UNCHANGED <<call, logouts, index, run, config, maxTransactions, depot, isRepo, branchList, tip, head,
                 commits, committed, continueFromTransaction, endTransaction, resumeId, queries,
                 histFailed, loggedIn, rv>>

\* The populate step of OnPromote (accurev.pop is called only for members).
Populate ==
  /\ step = "populate"
  /\ Running
  /\ \E popOk \in PopAnswers(last.transaction.id) :
       /\ Len(last.split.member) > 0 \/ popOk
       /\ \E trace \in {AfterPopulate(last, popOk)} :
            /\ last' = trace
            /\ index' = index \cup UpdateScan(trace.transaction.id, trace.removedDirs)
            /\ step' = IF trace.ret = "running" THEN "commit" ELSE "idle"
            /\ pc' = PcAfter(trace.ret)
  /\ UNCHANGED <<call, logouts, run, config, maxTransactions, depot, isRepo, branchList, tip, head,
                 commits, continueFromTransaction, endTransaction, resumeId, arHist,
                 queries, histFailed, dispatched, committed, loggedIn, rv, prev>>

\* OnPromote from GitCommit to its return.
Commit ==
  /\ step = "commit"
  /\ Running
  /\ \E outcome \in CommitAnswers(last.transaction.id) :
       \E gc \in {GitCommit(G, last.transaction,
                            GetTransactionDestStream(last.transaction),
                            AccurevComment2GitMessage(last.transaction),
                            last.addList, last.rmList, outcome)} :
         /\ gc.raised => outcome = "ok"
         /\ outcome = "nothing" => index = {}
         /\ SetG(gc.g)
         /\ committed' = committed \o
              [i \in 1..(Len(gc.g.commits) - Len(commits)) |->
                 gc.g.commits[Len(commits) + i].id]
         /\ last' = [last EXCEPT !.commitAttempted = ~ gc.raised,
                                 !.commitOutcome = IF gc.raised THEN "none" ELSE outcome,
                                 !.commitMade = gc.status,
                                 !.checkoutOp = gc.op,
                                 !.ret = IF gc.raised THEN "raise"
                                         ELSE CommitResult(outcome)]
         /\ pc' = PcAfter(last'.ret)
  /\ step' = "idle"
  /\ UNCHANGED <<call, logouts, run, config, maxTransactions, depot, isRepo,
                 continueFromTransaction, endTransaction, resumeId, arHist, queries,
                 histFailed, dispatched, loggedIn, rv, prev>>

\* The end of Start: accurev.logout, return 0, or 1 when the logout fails.
Logout ==
  /\ \/ /\ pc = "loop"
        /\ ~ (endTransaction - continueFromTransaction > maxTransactions)
        /\ ~ (endTransaction - continueFromTransaction > 0)
     \/ /\ pc = "remaining"
        /\ step = "idle"
        /\ arHist = <<>>
  /\ \E ok \in BOOLEAN :
       /\ loggedIn' = ~ ok
       /\ rv' = IF ok THEN "0" ELSE "1"
  /\ logouts' = logouts + 1
  /\ pc' = "returned"
  /\ UNCHANGED <<call, index, step, run, config, maxTransactions, depot, isRepo, branchList, tip,
                 head, commits, continueFromTransaction, endTransaction, resumeId,
                 arHist, queries, histFailed, dispatched, committed, last, prev>>

\* The process is terminated from outside, between two steps.
Interrupt ==
  /\ run = "first"
  /\ Running
  /\ pc' = "killed"
  /\ UNCHANGED <<call, logouts, index, step, run, config, maxTransactions, depot, isRepo, branchList, tip,
                 head, commits, continueFromTransaction, endTransaction, resumeId,
                 arHist, queries, histFailed, dispatched, committed, loggedIn, rv, last, prev>>

\* The script is started again on what the earlier process left.
StartAgain ==
  /\ run = "first"
  /\ ~ Running
  /\ run' = IF pc = "killed" THEN "resumed" ELSE "rerun"
  /\ pc' = "start"
  /\ step' = "idle"
  /\ branchList' = NoBranchList
  /\ continueFromTransaction' = NoTransaction
  /\ endTransaction' = NoTransaction
  /\ resumeId' = NoTransaction
  /\ arHist' = <<>>
  /\ queries' = <<>>
  /\ dispatched' = <<>>
  /\ committed' = <<>>
  /\ histFailed' = histFailed
  /\ loggedIn' = FALSE
  /\ rv' = None
  /\ last' = NoTrace
  /\ prev' = NoTrace
  /\ logouts' = 0
  /\ UNCHANGED <<call, index, config, maxTransactions, depot, isRepo, tip, head, commits>>

Next ==
  \/ StartInit
  \/ Login
  \/ Resolve
  \/ QueryWindow
  \/ WindowDone
  \/ QueryRemaining
  \/ Dispatch
  \/ Populate
  \/ Commit
  \/ Logout
  \/ Interrupt
  \/ StartAgain

Spec == Init /\ [][Next]_vars

\* The process has ended: Start returned to AccuRev2GitMain, sys.exit(1) was
\* called, or an exception went uncaught.
Ended == pc \in {"returned", "exited", "crashed"}

\* The exit status of the ended process: 1 after sys.exit(1) and after an
\* uncaught exception; 0 when Start returns, whatever it returns, because the
\* script calls AccuRev2GitMain(sys.argv) and drops its value.
ExitStatus == IF pc \in {"exited", "crashed"} THEN 1 ELSE 0

\* ------------------------------------------------------------- one transaction
\* The dispatcher on a window 1..m that holds one transaction of any shape,
\* n, after promotions to dev or rel (committed when their stream is allowed)
\* and before at most one more of them, and the checkpoint the next process
\* reads from what it leaves.
InitOne ==
  /\ pc = "remaining"
  /\ step = "idle"
  /\ run = "first"
  /\ \E n \in 1..MaxTx, m \in 1..MaxTx :
       /\ n <= m
       /\ m <= n + 1
       /\ config \in [startTransaction : {1}, endTransaction : {m},
                       streamList : StreamLists]
       /\ depot \in {d \in [1..MaxTx -> {"dev", "rel", "any"}] :
                       /\ \A id \in 1..MaxTx : d[id] = "any" <=> id = n
                       /\ \A id \in 1..MaxTx : id > m => d[id] = "dev"}
       /\ arHist = HistRange(1, m)
       /\ queries = <<[from |-> 1, to |-> m, ok |-> TRUE]>>
       /\ endTransaction = m
  /\ maxTransactions = MaxTx
  /\ isRepo = TRUE
  /\ branchList = NoBranchList
  /\ tip = NoTip
  /\ head = "master"
  /\ commits = <<>>
  /\ continueFromTransaction = 1
  /\ resumeId = 1
  /\ histFailed = FALSE
  /\ dispatched = <<>>
  /\ committed = <<>>
  /\ loggedIn = TRUE
  /\ rv = None
  /\ last = NoTrace
  /\ prev = NoTrace
  /\ call = NoCall
  /\ logouts = 0
  /\ index = {}

\* The next process asks GetLastConvertedTransaction where to go on.
ResolveNext ==
  /\ \/ pc = "remaining" /\ step = "idle" /\ arHist = <<>>
     \/ pc \in {"exited", "crashed"}
  /\ resumeId' = GetLastConvertedTransaction(G, config.startTransaction)
  /\ branchList' = NoBranchList
  /\ pc' = "resolved"
  /\ UNCHANGED <<call, logouts, index, step, run, config, maxTransactions, depot, isRepo, tip, head,
                 commits, continueFromTransaction, endTransaction, arHist, queries,
                 histFailed, dispatched, committed, loggedIn, rv, last, prev>>

NextOne ==
  \/ Dispatch
  \/ Populate
  \/ Commit
  \/ ResolveNext

SpecOne == InitOne /\ [][NextOne]_vars

\* ------------------------------------------------------------- functions called on their own
\* Nothing but the called function runs: there is no process, no depot and an
\* empty target.
NoProcess ==
  /\ pc = "none"
  /\ step = "idle"
  /\ run = "first"
  /\ config = [startTransaction |-> 1, endTransaction |-> 1, streamList |-> NoStreamList]
  /\ maxTransactions = 1
  /\ depot = [id \in 1..MaxTx |-> "dev"]
  /\ isRepo = FALSE
  /\ branchList = NoBranchList
  /\ tip = NoTip
  /\ head = "master"
  /\ commits = <<>>
  /\ continueFromTransaction = NoTransaction
  /\ endTransaction = NoTransaction
  /\ resumeId = NoTransaction
  /\ arHist = <<>>
  /\ queries = <<>>
  /\ histFailed = FALSE
  /\ dispatched = <<>>
  /\ committed = <<>>
  /\ loggedIn = FALSE
  /\ rv = None
  /\ last = NoTrace
  /\ prev = NoTrace
  /\ index = {}
  /\ logouts = 0

processVars == <<pc, step, run, config, maxTransactions, depot, isRepo, branchList, tip,
                 head, commits, continueFromTransaction, endTransaction, resumeId,
                 arHist, queries, histFailed, dispatched, committed, loggedIn, rv,
                 last, prev, index, logouts>>

\* The local paths GitCommit is handed, and its lists of them.
LocalPaths == {LocalElementPath(PA), LocalElementPath(PC)}
PathLists == UNION {[1..n -> LocalPaths] : n \in 0..MaxList}

\* GitCommit with the lists addList and rmList and the batch size maxItems,
\* at its first loop; added and removed collect the lists handed to
\* gitRepo.add and gitRepo.rm, addOk and rmOk what the calls returned.
GitCommitCalls ==
  {[fn |-> "GitCommit", at |-> "add", maxItems |-> k, addArg |-> a, rmArg |-> r,
    addList |-> a, rmList |-> r, added |-> <<>>, removed |-> <<>>,
    addOk |-> <<>>, rmOk |-> <<>>] :
     k \in 1..MaxBatch, a \in PathLists, r \in PathLists}

\* A batch that git refuses ends GitCommit with no commit.
AfterBatchFailureEnds(at, ok) == IF ok THEN at ELSE "failed"

\* Where a loop of GitCommit is after gitRepo.add or gitRepo.rm of a batch
\* returned ok: a false result is logged and the loop goes on.
AfterBatch(at, ok) == at

\* One pass of the add loop: gitRepo.add of the batch, or the break.
AddLoop ==
  /\ call.fn = "GitCommit"
  /\ call.at = "add"
  /\ \E b \in {TakeBatch(call.addList, call.maxItems)} :
       IF Len(b.tmpList) > 0
       THEN \E ok \in BOOLEAN :
              call' = [call EXCEPT !.addList = b.rest, !.added = Append(@, b.tmpList),
                                   !.addOk = Append(@, ok),
                                   !.at = AfterBatch("add", ok)]
       ELSE call' = [call EXCEPT !.addList = b.rest, !.at = "rm"]
  /\ UNCHANGED processVars

\* One pass of the rm loop: gitRepo.rm of the batch, or the break that leads to
\* gitRepo.commit.
RmLoop ==
  /\ call.fn = "GitCommit"
  /\ call.at = "rm"
  /\ \E b \in {TakeBatch(call.rmList, call.maxItems)} :
       IF Len(b.tmpList) > 0
       THEN \E ok \in BOOLEAN :
              call' = [call EXCEPT !.rmList = b.rest, !.removed = Append(@, b.tmpList),
                                   !.rmOk = Append(@, ok),
                                   !.at = AfterBatch("rm", ok)]
       ELSE call' = [call EXCEPT !.rmList = b.rest, !.at = "commit"]
  /\ UNCHANGED processVars

\* The user map of the configuration: entries whose git name and address
\* may be missing, several of which may name the same user.
Users == {"joe", "ann"}
UserMapEntries ==
  [accurevUsername : Users \cup {None},
   gitName : {NoText, Text(<<"Joe Doe">>)},
   gitEmail : {NoText, Text(<<"joe.doe", "@example.com">>)}]
UserMaps == UNION {[1..n -> UserMapEntries] : n \in 0..MaxMaps}

AuthorCalls ==
  {[fn |-> "AccurevUser2GitAuthor", at |-> "call", usermaps |-> um, accurevUser |-> u,
    author |-> [name |-> <<>>, email |-> <<>>]] :
     um \in UserMaps, u \in Users \cup {None}}

\* AccurevUser2GitAuthor(transaction.user), as OnPromote calls it.
Author ==
  /\ call.fn = "AccurevUser2GitAuthor"
  /\ call.at = "call"
  /\ call' = [call EXCEPT !.at = "returned",
                          !.author = AccurevUser2GitAuthor(call.usermaps, call.accurevUser)]
  /\ UNCHANGED processVars

\* The element paths GetParentPaths is called with: depot paths, which begin
\* with the root marker, the marker itself, and the paths "/dir/a.txt",
\* "dir/a.txt" and "a.txt", which do not.
ElementPaths ==
  VersionPaths \cup {RootMarker, <<"", "dir", "a.txt">>, <<"dir", "a.txt">>, <<"a.txt">>}

ParentPathsCalls ==
  {[fn |-> "GetParentPaths", at |-> "loop", arg |-> e, elemPath |-> e, parents |-> <<>>] :
     e \in ElementPaths}

\* The first statement of the while loop of GetParentPaths: elemPath =
\* os.path.dirname(elemPath).
ParentDirname ==
  /\ call.fn = "GetParentPaths"
  /\ call.at = "loop"
  /\ call' = [call EXCEPT !.elemPath = Dirname(@), !.at = "test"]
  /\ UNCHANGED processVars

\* The rest of the pass: the break at the root marker, else the append and
\* the next pass.  Of a list longer than MaxParents the first MaxParents
\* entries are kept.
ParentTest ==
  /\ call.fn = "GetParentPaths"
  /\ call.at = "test"
  /\ call' = IF call.elemPath = RootMarker
             THEN [call EXCEPT !.at = "returned"]
             ELSE [call EXCEPT !.at = "loop",
                               !.parents = IF Len(@) < MaxParents
                                           THEN Append(@, call.elemPath) ELSE @]
  /\ UNCHANGED processVars

InitCalls ==
  /\ NoProcess
  /\ call \in GitCommitCalls \cup AuthorCalls \cup ParentPathsCalls

NextCalls ==
  \/ AddLoop
  \/ RmLoop
  \/ Author
  \/ ParentDirname
  \/ ParentTest

SpecCalls == InitCalls /\ [][NextCalls]_vars

\* A called function keeps running: the interpreter takes the next pass of a
\* loop that has not ended.
SpecCallsFair == SpecCalls /\ WF_vars(NextCalls)

\* ------------------------------------------------------------- the run, claims
\* Start returned 0: the loop and the remaining transactions are done and the
\* logout succeeded.
Completed == pc = "returned" /\ rv = "0"

AllQueriesOk == \A i \in DOMAIN queries : queries[i].ok

\* C1: within one run of Start the transaction ids handed to
\* ProcessAccuRevTransaction, over all history windows taken together, are
\* strictly increasing.
C1_DispatchStrictlyIncreasing ==
  \A i, j \in DOMAIN dispatched : i < j => dispatched[i] < dispatched[j]

\* A run that dispatched three transactions out of at least two windows.
C1_Witness ==
  /\ Len(queries) >= 2
  /\ Len(dispatched) >= 3
  /\ C1_DispatchStrictlyIncreasing

\* C2: a run with resume id s and end id e, s <= e, whose history queries all
\* succeeded and which ran to its end has dispatched exactly the ids s..e, each
\* once and in order; s = e included.
C2_RangeDispatchedExactlyOnce ==
  (/\ Completed
   /\ AllQueriesOk
   /\ resumeId # NoTransaction
   /\ resumeId <= endTransaction)
    => dispatched = HistRange(resumeId, endTransaction)

\* C3: every history query of Start covers at most maxTransactions ids.
C3_QueryWithinWindow ==
  \A i \in DOMAIN queries : queries[i].to - queries[i].from + 1 <= maxTransactions

\* The ids one uninterrupted run of the loop of Start dispatches from c to e
\* with windows of w, every history query succeeding.
RECURSIVE StartRange(_, _, _)
StartRange(c, e, w) ==
  IF e - c > w THEN HistRange(c, StopAtTransaction(c, w)) \o StartRange(NextWindow(c, w), e, w)
  ELSE IF e - c > 0 THEN HistRange(c, e)
  ELSE <<>>

\* The commit GitCommit makes of the promotion that the depot holds for id.
ScenarioCommit(id) ==
  [branch |-> depot[id], id |-> id,
   message |-> AccurevComment2GitMessage(ScenarioTransaction(depot[id], id)),
   add |-> <<LocalElementPath(PC)>>, rm |-> <<>>,
   changes |-> Staged(id, <<LocalElementPath(PC)>>, <<>>)]

\* The commits of one uninterrupted run over the configured range that starts
\* on a target without commits.
UninterruptedCommits ==
  LET ids == StartRange(config.startTransaction, config.endTransaction, maxTransactions)
      made == SelectSeq(ids, LAMBDA id : depot[id] \in {"dev", "rel"})
  IN [i \in 1..Len(made) |-> ScenarioCommit(made[i])]

\* What a first process that runs to its end without a failed history query
\* leaves is UninterruptedCommits.
UninterruptedRunCommits ==
  (run = "first" /\ Completed /\ ~ histFailed) => commits = UninterruptedCommits

\* C4: after a killed process and a resumed one that ran to its end, no
\* history query of either having failed, the commits (branch, tag id, added
\* and removed paths) are those of one uninterrupted run over the same range.
C4_ResumedEqualsUninterrupted ==
  (run = "resumed" /\ Completed /\ ~ histFailed) => commits = UninterruptedCommits

\* C5: when a process starts on a target that holds commits of earlier
\* processes, the resume id it computes is the id of the last commit made, on
\* whatever branch, plus one.
C5_ResumeAfterLastCommit ==
  (/\ run # "first"
   /\ pc = "loop"
   /\ queries = <<>>
   /\ commits # <<>>)
    => resumeId = commits[Len(commits)].id + 1

\* C7: once the checkpoint is resolved on a target whose newest commit message
\* carries no transaction tag, Start has returned 1 with nothing dispatched, no
\* history window queried and no commit made.
UntaggedTarget == ~ IsInitialCommit(G) /\ ReSearch(GitLogLast(G)) = 0

CheckpointResolved == endTransaction # NoTransaction /\ pc # "killed"

C7_UntaggedTargetFails ==
  (CheckpointResolved /\ UntaggedTarget)
    => /\ pc = "returned"
       /\ rv = "1"
       /\ dispatched = <<>>
       /\ queries = <<>>
       /\ commits = <<>>

C7_Witness ==
  /\ CheckpointResolved
  /\ UntaggedTarget
  /\ pc = "returned"
  /\ rv = "1"
  /\ dispatched = <<>>

\* ------------------------------------------------------------- one transaction, claims
\* C6: GetLastConvertedTransaction returns the configured start transaction on
\* a target without commits, and on a target with commits the id in the tag of
\* the most recent commit's message (the tag ends the message) plus one.
C6_CheckpointFromNewestCommit ==
  pc = "resolved"
    => resumeId = IF commits = <<>> THEN config.startTransaction
                  ELSE LET message == commits[Len(commits)].message
                       IN message[Len(message)] + 1

\* The split of the promotion handled last returned its three lists.
SplitReturned == last.acted /\ last.statCalled /\ ~ last.split.raised

Occurrences(list, v) == Cardinality({i \in DOMAIN list : list[i] = v})

\* C8: when SplitElementsByStatusViaStat returns normally for a promotion,
\* each Version of the transaction is in exactly one of member, defunct and
\* stranded, and the lists hold no Version that is not of the transaction.
C8_SplitIsPartition ==
  SplitReturned
    => LET versions == last.transaction.versions
           split == last.split
       IN /\ \A i \in DOMAIN versions :
               Occurrences(split.member, versions[i])
                 + Occurrences(split.defunct, versions[i])
                 + Occurrences(split.stranded, versions[i]) = 1
          /\ SeqToSet(split.member) \cup SeqToSet(split.defunct)
               \cup SeqToSet(split.stranded) \subseteq SeqToSet(versions)

\* A promotion of two versions split into a member and a stranded one.
C8_Witness ==
  /\ SplitReturned
  /\ Len(last.transaction.versions) = 2
  /\ Len(last.split.member) = 1
  /\ Len(last.split.stranded) = 1

\* p lies beneath d: d is a proper prefix of p, component by component.
NestedBeneath(p, d) == Len(d) < Len(p) /\ SubSeq(p, 1, Len(d)) = d

\* C9: when the split returns for a promotion with a path d classified defunct
\* and a path p beneath d that is not itself defunct, p is classified stranded
\* and is not a member.
C9_DefunctAncestorStrands ==
  SplitReturned
    => LET versions == last.transaction.versions
           split == last.split
       IN \A i, j \in DOMAIN versions :
            (/\ NestedBeneath(versions[j].path, versions[i].path)
             /\ versions[i] \in SeqToSet(split.defunct)
             /\ versions[j] \notin SeqToSet(split.defunct))
              => /\ versions[j] \in SeqToSet(split.stranded)
                 /\ versions[j] \notin SeqToSet(split.member)

\* /./dir is defunct and /./dir/sub/b.txt, two levels beneath it, is stranded.
C9_Witness ==
  /\ SplitReturned
  /\ Version(PDir, "dev") \in SeqToSet(last.split.defunct)
  /\ Version(PB, "dev") \in SeqToSet(last.split.stranded)

\* C10: a promotion whose status query result omits a path of the combined
\* set (a Version path or an ancestor directory of one) has aborted the run
\* once its handler is done, with no commit attempted for the transaction.
C10_OmittedPathAborts ==
  (/\ last.acted
   /\ last.statCalled
   /\ ~ last.info.isNone
   /\ step = "idle"
   /\ \E p \in SeqToSet(FullList(last.transaction)) : p \notin DOMAIN last.info.dict)
    => /\ last.ret = "raise"
       /\ ~ last.commitAttempted

\* ------------------------------------------------------------- the promotion handler, claims
\* The target holds no commit of the transaction id.
NoCommitOf(id) == \A i \in DOMAIN commits : commits[i].id # id

\* The loop over the window goes on: the process has not ended, and the next
\* transaction of the window, when there is one, is up for dispatch.
GoesOn ==
  /\ pc \notin {"exited", "crashed"}
  /\ arHist # <<>> => (pc \in {"window", "remaining"} /\ step = "idle")

\* The handler of trace t was followed by the dispatch of the next transaction.
NextDispatchedAfter(t) ==
  /\ t.acted
  /\ last.acted
  /\ last.transaction.id = t.transaction.id + 1
  /\ dispatched[Len(dispatched)] = last.transaction.id

\* A promotion whose split returned, whose populate did not fail and whose add
\* and remove lists both come out empty.
EmptyLists(t) ==
  /\ t.acted
  /\ t.statCalled
  /\ ~ t.split.raised
  /\ ~ t.popFailed
  /\ AddListOf(t.split.member) = <<>>
  /\ RmListOf(t.split.defunct) = <<>>

\* C11: when the handler of a promotion whose add list and remove list are
\* both empty is done, no commit was attempted or created for the transaction
\* and the run goes on with the next transaction.
C11_EmptyListsNoCommit ==
  (EmptyLists(last) /\ step = "idle")
    => /\ ~ last.commitAttempted
       /\ NoCommitOf(last.transaction.id)
       /\ GoesOn

\* After such a promotion the next transaction was dispatched.
C11_Witness ==
  /\ EmptyLists(prev)
  /\ NoCommitOf(prev.transaction.id)
  /\ NextDispatchedAfter(prev)

\* A promotion of the directory /./dir and the file /./dir/a.txt for which the
\* status query says /./dir is defunct and /./dir/a.txt is not.
DefunctDirWithFile(t) ==
  /\ t.acted
  /\ t.transaction.Type = "promote"
  /\ t.statCalled
  /\ Len(t.transaction.versions) = 2
  /\ {t.transaction.versions[i].path : i \in 1..2} = {PDir, PA}
  /\ ~ t.info.isNone
  /\ DOMAIN t.info.dict = {PDir, PA}
  /\ t.info.dict[PDir]
  /\ ~ t.info.dict[PA]

\* C12: when the handler of such a promotion is done, /./dir is classified
\* defunct and /./dir/a.txt stranded, the directory dir of the working tree was
\* deleted, a commit was made for the transaction, and the remove list has no
\* entry for dir/a.txt.
C12_DefunctDirCommitted ==
  (DefunctDirWithFile(last) /\ step = "idle")
    => /\ \A i \in 1..2 :
            LET v == last.transaction.versions[i]
            IN IF v.path = PDir THEN v \in SeqToSet(last.split.defunct)
               ELSE v \in SeqToSet(last.split.stranded)
       /\ LocalElementPath(PDir) \in SeqToSet(last.removedDirs)
       /\ last.commitMade
       /\ ~ NoCommitOf(last.transaction.id)
       /\ LocalElementPath(PA) \notin SeqToSet(last.rmList)

\* C13: once the lists of a promotion are made, every version classified
\* defunct or stranded that is a file or a link is on the remove list.
C13_DefunctAndStrandedRemoved ==
  (/\ last.acted
   /\ last.statCalled
   /\ ~ last.split.raised
   /\ ~ last.popFailed
   /\ step # "populate")
    => \A v \in SeqToSet(last.split.defunct) \cup SeqToSet(last.split.stranded) :
         ~ IsRealDir(v) => LocalElementPath(v.path) \in SeqToSet(last.rmList)

\* The commit of the promotion of trace t failed with something other than
\* 'nothing to commit', with or without a last error.
CommitFailed(t) == t.acted /\ t.commitOutcome \in {"error", "errorNoLast"}

\* C14: when the commit of a promotion has failed with an outcome other than
\* 'nothing to commit', the process has ended once the handler is done, and no
\* transaction is dispatched after such a promotion.
C14_CommitFailureAborts ==
  /\ (CommitFailed(last) /\ step = "idle" /\ pc # "resolved") => pc \in {"exited", "crashed"}
  /\ ~ CommitFailed(prev)

\* C15: when the commit of a promotion has reported 'nothing to commit', the
\* handler returns True, no commit of the transaction exists, and the run goes
\* on with the next transaction.
C15_NothingToCommitIsSkip ==
  (last.acted /\ last.commitOutcome = "nothing" /\ step = "idle")
    => /\ last.ret = "true"
       /\ ~ last.commitMade
       /\ NoCommitOf(last.transaction.id)
       /\ GoesOn

\* After a promotion with nothing to commit the next transaction was dispatched.
C15_Witness ==
  /\ prev.acted
  /\ prev.commitOutcome = "nothing"
  /\ NoCommitOf(prev.transaction.id)
  /\ NextDispatchedAfter(prev)

\* C16: when the populate of the members of a promotion has failed, the
\* process has exited with nothing added, removed or committed for the
\* transaction, and no transaction is dispatched after such a promotion.
C16_PopulateFailureExits ==
  /\ last.popFailed
       => /\ pc \in {"exited", "resolved"}
          /\ step = "idle"
          /\ last.ret = "exit"
          /\ last.addList = <<>>
          /\ last.rmList = <<>>
          /\ last.removedDirs = <<>>
          /\ ~ last.commitAttempted
          /\ NoCommitOf(last.transaction.id)
          /\ dispatched[Len(dispatched)] = last.transaction.id
  /\ ~ prev.popFailed

\* The populate failed while the window still held a transaction.
C16_Witness ==
  /\ last.popFailed
  /\ pc = "exited"
  /\ arHist # <<>>

\* ------------------------------------------------------------- failures and other types, claims
\* C17: a history query that cannot be completed (of a window, or the one that
\* resolves the end id) is the last query of the run, nothing of it is
\* processed, and Start does not return 0.
C17_FailedQueryFailsRun ==
  /\ \A i \in DOMAIN queries : ~ queries[i].ok => i = Len(queries)
  /\ (\E i \in DOMAIN queries : ~ queries[i].ok) => rv # "0"
  /\ endTransaction = -1 => (queries = <<>> /\ rv # "0")

\* Start ended on a fatal condition: sys.exit(1) or an uncaught exception in
\* the repository initialization or a handler, a bare return after a failed
\* InitGitRepo, or return 1 after a failed login or an undeterminable
\* checkpoint.
FatalEnd ==
  \/ pc \in {"exited", "crashed"}
  \/ /\ pc = "returned"
     /\ \/ rv = None
        \/ rv = "1" /\ resumeId = NoTransaction

\* C18: a process that ended on a fatal condition has a non-zero exit status,
\* and one whose run completed has exit status zero.
C18_FatalMeansNonZeroExit ==
  Ended => /\ FatalEnd => ExitStatus # 0
           /\ Completed => ExitStatus = 0

\* The handler of trace t changed nothing: no status query, no populate, no
\* directory removed, no commit attempted.
NothingDone(t) ==
  /\ ~ t.statCalled
  /\ ~ t.popCalled
  /\ t.removedDirs = <<>>
  /\ ~ t.commitAttempted

C20_NoHandlerGoesOn ==
  [][(dispatched' # dispatched /\ last'.transaction.Type \notin HandledTypes)
       => /\ last'.noHandler
          /\ last'.ret = "none"
          /\ NothingDone(last')
          /\ G' = G
          /\ step' = "idle"
          /\ pc' = pc
          /\ arHist' # <<>> => pc' \in {"window", "remaining"}]_vars

\* After a transaction without handler the next transaction was dispatched.
C20_Witness ==
  /\ prev.noHandler
  /\ NextDispatchedAfter(prev)

\* ------------------------------------------------------------- the run, more claims
\* C21: in any single run, at most one commit is created for any given source
\* transaction id: the ids of the commits one process created are distinct.
C21_OneCommitPerTransaction ==
  \A i, j \in DOMAIN committed : i # j => committed[i] # committed[j]

\* A process started on what an earlier one left has created two commits.
C21_Witness ==
  /\ run # "first"
  /\ Len(committed) >= 2
  /\ Len(commits) > Len(committed)

\* ------------------------------------------------------------- the promotion handler, more claims
\* A promotion with versions whose destination stream is known.
PromotionTo(t, stream) ==
  /\ t.acted
  /\ t.transaction.Type = "promote"
  /\ Len(t.transaction.versions) > 0
  /\ stream # None
  /\ GetTransactionDestStream(t.transaction) = stream

\* The promotion of trace t goes to a stream the configured allow-list lacks.
NotAllowed(t) ==
  /\ ~ config.streamList.isNone
  /\ \E s \in Streams \ config.streamList.names : PromotionTo(t, s)

\* C22: a promotion whose destination stream is not in the configured
\* allow-list is skipped: no status query, no populate, no checkout, no staging
\* and no commit happen for it, its handler returns at the dispatch and the
\* loop goes on; a promotion to a listed stream, and every promotion with a
\* known stream when no allow-list is configured, gets its status query.
C22_StreamNotAllowedSkipped ==
  /\ NotAllowed(last)
       => /\ last.ret = "false"
          /\ step = "idle"
          /\ NothingDone(last)
          /\ last.checkoutOp = "none"
          /\ last.addList = <<>> /\ last.rmList = <<>>
          /\ NoCommitOf(last.transaction.id)
          /\ GoesOn
  /\ \A s \in Streams :
       (PromotionTo(last, s) /\ (config.streamList.isNone \/ s \in config.streamList.names))
         => last.statCalled

\* After a skipped promotion the next transaction was dispatched.
C22_Witness ==
  /\ NotAllowed(prev)
  /\ NextDispatchedAfter(prev)
  /\ commits # <<>>

\* ------------------------------------------------------------- functions called on their own, claims
\* The batches are not empty and hold at most maxItems paths each.
BatchesFit(batches, maxItems) ==
  \A i \in DOMAIN batches : Len(batches[i]) \in 1..maxItems

\* C23: for every add list, remove list and positive batch size, the batches of
\* GitCommit's loops hold at most the batch size each and, put end to end,
\* are the list in its order, so that every path is passed in exactly one
\* batch and the paths staged and removed are those of one call on the whole
\* list; inside a loop the batches passed and the list that is left make up
\* the list.
C23_BatchesCoverLists ==
  call.fn = "GitCommit"
    => /\ Passed(call.added) \o call.addList = call.addArg
       /\ Passed(call.removed) \o call.rmList = call.rmArg
       /\ BatchesFit(call.added, call.maxItems)
       /\ BatchesFit(call.removed, call.maxItems)
       /\ call.at # "add" => call.added = Batches(call.addArg, call.maxItems)
       /\ call.at = "commit"
            => /\ call.removed = Batches(call.rmArg, call.maxItems)
               /\ Passed(call.added) = call.addArg
               /\ Passed(call.removed) = call.rmArg
               /\ SeqToSet(Passed(call.added)) = SeqToSet(call.addArg)
               /\ SeqToSet(Passed(call.removed)) = SeqToSet(call.rmArg)

\* Both loops are over, each after several batches the last of which was not
\* full.
C23_Witness ==
  /\ call.fn = "GitCommit"
  /\ call.at = "commit"
  /\ Len(call.added) >= 2
  /\ Len(call.removed) >= 2
  /\ Len(call.added[Len(call.added)]) < call.maxItems
  /\ Len(call.removed[Len(call.removed)]) < call.maxItems

\* ------------------------------------------------------------- the target repository, claims
\* The branch exists in the target repository.
BranchExists(b) == tip[b] # <<>>

HasBranches == \E b \in Branches : BranchExists(b)

\* OnPromote is about to call GitCommit, which begins with CheckoutBranch of
\* the branch of the promotion's stream.
AtCheckout == step = "commit" /\ Running

CheckoutName == GetTransactionDestStream(last.transaction)

\* C24: CheckoutBranch(name) on a repository that has branches issues no
\* checkout when the branch name exists and is active, switches to it
\* without creating a branch when it exists and is not active, and creates it
\* at the current position when no branch has that name; on a repository
\* without branches the branch is created in place, no branch being born
\* before the first commit; in every case the active branch after the call is
\* name.
C24_CheckoutBranchCases ==
  AtCheckout
    => LET co == CheckoutBranch(G, CheckoutName)
       IN /\ (HasBranches /\ BranchExists(CheckoutName) /\ head = CheckoutName)
               => (co.op = "none" /\ co.g.tip = tip)
          /\ (HasBranches /\ BranchExists(CheckoutName) /\ head # CheckoutName)
               => (co.op = "switch" /\ co.g.tip = tip)
          /\ (HasBranches /\ ~ BranchExists(CheckoutName))
               => /\ co.op = "create"
                  /\ co.g.tip = [tip EXCEPT ![CheckoutName] = tip[head]]
                  /\ BranchExists(head)
          /\ ~ HasBranches
               => /\ co.g.tip = tip
                  /\ co.op = IF head = CheckoutName THEN "none" ELSE "create"
          /\ co.g.head = CheckoutName

\* CheckoutBranch is called by the third promotion, for a branch that exists
\* and is not active.
C24_Witness ==
  /\ AtCheckout
  /\ BranchExists(CheckoutName)
  /\ head # CheckoutName
  /\ BranchExists(head)
  /\ CheckoutBranch(G, CheckoutName).op = "switch"

\* ------------------------------------------------------------- the checkpoint, claims
\* The newest commit of the target is the one GitCommit created for the
\* transaction handled last.
CommittedLast ==
  /\ last.acted
  /\ last.commitMade
  /\ commits # <<>>
  /\ commits[Len(commits)].id = last.transaction.id
  /\ commits[Len(commits)].message = AccurevComment2GitMessage(last.transaction)

\* C25: round trip of the checkpoint tag: for every transaction id n and every
\* comment (absent, empty, or holding text that looks like a transaction tag),
\* the id found in the `git log -1` text of the commit whose message
\* AccurevComment2GitMessage built is n, and the id the next process resumes
\* at is n + 1.
C25_TagRoundTrip ==
  CommittedLast
    => /\ ReSearch(GitLogLast(G)) = last.transaction.id
       /\ pc = "resolved" => resumeId = last.transaction.id + 1

\* ------------------------------------------------------------- the status query, claims
\* The status query of the promotion handled last went through the list file
\* and is over.
ListFileQueried == last.acted /\ last.statCalled /\ last.split.listFile

\* C26: when the status query of a promotion is issued through the temporary
\* list file, the file no longer exists once the query is over, whether the
\* query returned a result, returned None or raised.
C26_ListFileRemoved == ListFileQueried => ~ last.split.fileLeft

\* ------------------------------------------------------------- the commit author, claims
\* The entries of the user map that name the user.
EntriesOf(usermaps, u) == {i \in DOMAIN usermaps : usermaps[i].accurevUsername = u}

\* The first of them.
EntryOf(usermaps, u) ==
  usermaps[CHOOSE i \in EntriesOf(usermaps, u) : \A j \in EntriesOf(usermaps, u) : i <= j]

Synthesized(u) == [name |-> <<u>>, email |-> <<u, "@no-email.com">>]

\* C27: the commit author for the source user u is the name and the address of
\* the user map entry of u when u is mapped, and the identity synthesized from
\* the username (name u, address u@no-email.com) when u has no entry; where a
\* mapped entry lacks the name or the address, that part alone is the
\* synthesized one.
C27_AuthorFromUserMap ==
  (call.fn = "AccurevUser2GitAuthor" /\ call.at = "returned" /\ call.accurevUser # None)
    => LET u == call.accurevUser
           um == call.usermaps
       IN IF EntriesOf(um, u) = {}
          THEN call.author = Synthesized(u)
          ELSE /\ call.author.name = IF EntryOf(um, u).gitName.isNone
                                     THEN Synthesized(u).name
                                     ELSE EntryOf(um, u).gitName.text
               /\ call.author.email = IF EntryOf(um, u).gitEmail.isNone
                                      THEN Synthesized(u).email
                                      ELSE EntryOf(um, u).gitEmail.text

\* The author of a user whose entry, after an entry of another user, has an
\* address and no name.
C27_Witness ==
  /\ call.fn = "AccurevUser2GitAuthor"
  /\ call.at = "returned"
  /\ call.accurevUser = "joe"
  /\ Len(call.usermaps) = 2
  /\ call.usermaps[1].accurevUsername = "ann"
  /\ call.usermaps[2].accurevUsername = "joe"
  /\ call.usermaps[2].gitName.isNone
  /\ ~ call.usermaps[2].gitEmail.isNone
  /\ call.author = [name |-> <<"joe">>, email |-> <<"joe.doe", "@example.com">>]

\* ------------------------------------------------------------- the classifier, claims
\* The status query result flags the path as defunct.
Flagged(infoDict, p) == p \in DOMAIN infoDict /\ infoDict[p]

\* The ancestor directories of a path below the depot root marker.
AncestorDirs(p) == {SubSeq(p, 1, k) : k \in (Len(RootMarker) + 1)..(Len(p) - 1)}

\* C28: when the split returns for a promotion, each Version v is in the
\* defunct list iff the status query result flags its path; in the stranded
\* list iff the result does not flag its path and flags at least one of its
\* ancestor directories; in the member list iff the result flags neither its
\* path nor any of its ancestor directories.
C28_ClassifiedByFlags ==
  SplitReturned
    => \A i \in DOMAIN last.transaction.versions :
         LET v == last.transaction.versions[i]
             own == Flagged(last.info.dict, v.path)
             anc == \E a \in AncestorDirs(v.path) : Flagged(last.info.dict, a)
         IN /\ v \in SeqToSet(last.split.defunct) <=> own
            /\ v \in SeqToSet(last.split.stranded) <=> (~ own /\ anc)
            /\ v \in SeqToSet(last.split.member) <=> (~ own /\ ~ anc)

\* The split returned with /./dir/a.txt, flagged like its directory, in the
\* defunct list, next to /./dir/sub/b.txt, stranded by the same directory.
C28_Witness ==
  /\ SplitReturned
  /\ Flagged(last.info.dict, PA)
  /\ Flagged(last.info.dict, PDir)
  /\ Version(PA, "dev") \in SeqToSet(last.split.defunct)
  /\ Version(PB, "dev") \in SeqToSet(last.split.stranded)
  /\ ~ Flagged(last.info.dict, PSub)

\* ------------------------------------------------------------- the parent paths, claims
\* The ancestor directories of a path below the root marker, nearest first.
AncestorsNearestFirst(p) ==
  [i \in 1..(Len(p) - 1 - Len(RootMarker)) |-> SubSeq(p, 1, Len(p) - i)]

BeginsWithRootMarker(p) ==
  Len(p) > Len(RootMarker) /\ SubSeq(p, 1, Len(RootMarker)) = RootMarker

\* C29: GetParentPaths terminates for every element path, also for one that
\* does not begin with the root marker, and what it returns for a depot path
\* is the list of the ancestor directories of the path below the root marker,
\* nearest first.
C29_ParentPathsTerminates ==
  /\ []((/\ call.fn = "GetParentPaths"
         /\ call.at = "returned"
         /\ BeginsWithRootMarker(call.arg))
          => call.parents = AncestorsNearestFirst(call.arg))
  /\ (call.fn = "GetParentPaths") ~> (call.at = "returned")

\* ------------------------------------------------------------- the promotion handler, directories
\* The lists of the promotion handled last are made: the split returned and
\* the populate did not end the process.
ListsMade ==
  /\ last.acted
  /\ last.statCalled
  /\ ~ last.split.raised
  /\ ~ last.popFailed
  /\ step # "populate"

\* C30: once the lists of a promotion are made, each version classified
\* defunct or stranded that is a directory and not a symbolic or external link
\* has had its subtree of the working tree removed (each removal followed by
\* the update scan) and is not on the remove list; each that is flagged a
\* directory and is a symbolic or external link has had no subtree removed
\* and is on the remove list.
C30_DirectoriesRemovedLinksListed ==
  ListsMade
    => \A v \in SeqToSet(last.split.defunct) \cup SeqToSet(last.split.stranded) :
         v.dir
           => IF IsRealDir(v)
              THEN /\ LocalElementPath(v.path) \in SeqToSet(last.removedDirs)
                   /\ LocalElementPath(v.path) \notin SeqToSet(last.rmList)
              ELSE /\ LocalElementPath(v.path) \notin SeqToSet(last.removedDirs)
                   /\ v.path \notin SeqToSet(last.removedDirs)
                   /\ LocalElementPath(v.path) \in SeqToSet(last.rmList)

\* ------------------------------------------------------------- the staging loops, claims
\* C31: a batch whose staging or removal fails inside GitCommit does not end
\* it: the loops are left only towards the commit, every batch of the add
\* list and of the remove list that follows the failed one is still handed to
\* git in order, and gitRepo.commit is reached with all of them passed.
C31_BatchFailureOnlyLogged ==
  call.fn = "GitCommit"
    => /\ call.at \in {"add", "rm", "commit"}
       /\ Len(call.addOk) = Len(call.added)
       /\ Len(call.rmOk) = Len(call.removed)
       /\ call.at # "add" => call.added = Batches(call.addArg, call.maxItems)
       /\ call.at = "commit" => call.removed = Batches(call.rmArg, call.maxItems)

\* The commit is reached after the first add batch and the first rm batch
\* failed and further batches of both lists were passed.
C31_Witness ==
  /\ call.fn = "GitCommit"
  /\ call.at = "commit"
  /\ Len(call.added) >= 2
  /\ Len(call.removed) >= 2
  /\ ~ call.addOk[1]
  /\ ~ call.rmOk[1]

\* ------------------------------------------------------------- the working tree, claims
\* The populate step of OnPromote has just put member content into the
\* working tree or deleted the subtree of a defunct directory.
TouchesWorkingTree ==
  /\ step = "populate"
  /\ step' # "populate"
  /\ last'.popCalled \/ last'.removedDirs # <<>>

\* C32: whenever a promotion for stream S populates member content into the
\* working tree or deletes a defunct directory subtree from it, the branch of
\* S is the active branch of the target repository at that moment, whatever
\* stream the promotion committed before it went to.
C32_PopulateOnOwnBranch ==
  [][TouchesWorkingTree => head = GetTransactionDestStream(last.transaction)]_vars

\* ------------------------------------------------------------- the index, claims
\* The handler of the promotion handled last has returned to the loop over
\* the window.
PromotionReturned ==
  /\ last.acted
  /\ last.transaction.Type = "promote"
  /\ step = "idle"
  /\ last.ret \in {"true", "false"}

\* C33: after the handler of a promotion has returned without ending the
\* run, the index of the target holds no staged change that is not committed,
\* also when no commit was made after an update scan and when the commit
\* failed; and every commit holds the changes of its own transaction only.
C33_NoStagedChangeLeft ==
  /\ PromotionReturned => index = {}
  /\ \A i \in DOMAIN commits : \A ch \in commits[i].changes : ch.id = commits[i].id

\* ------------------------------------------------------------- the branch list cache, claims
\* The branches the cached list marks as current.
CachedCurrent == {b \in branchList.items : b.isCurrent}

\* C34: once CheckoutBranch has been called in a run, whatever calls and
\* commits followed, the cached branch list marks exactly one branch as
\* current, that branch is the active branch of the repository, and the list
\* holds every branch that exists in the repository.
C34_CacheMatchesRepository ==
  ~ branchList.isNone
    => /\ Cardinality(CachedCurrent) = 1
       /\ \A b \in CachedCurrent : b.name = head
       /\ \A b \in Branches :
            BranchExists(b) => \E c \in branchList.items : c.name = b

\* ------------------------------------------------------------- the session, claims
\* The login succeeded and Start has returned: it got as far as the
\* checkpoint and the process was not terminated.
ReturnedAfterLogin == pc = "returned" /\ endTransaction # NoTransaction

\* C35: in every run in which the login succeeded and Start returns,
\* accurev.logout has been called exactly once when Start returns, also when
\* the checkpoint could not be determined.
C35_LogoutOnceBeforeReturn == ReturnedAfterLogin => logouts = 1
====
